---- MODULE Spec2Model ----
(***************************************************************************)
(* Model of clean_parsed_conversations.py: main() reads a JSON array of    *)
(* message records, clean_messages() filters and repairs them one record   *)
(* per loop iteration, and main() writes the cleaned list and prints a     *)
(* count.                                                                  *)
(*                                                                         *)
(* JSON values are tagged records [k, s, n, f]:                            *)
(*   k = "absent"  the key is not in the dict                              *)
(*   k = "null"    None                                                    *)
(*   k = "str"     a string, s its characters                              *)
(*   k = "int"     an int, n its value                                     *)
(*   k = "float"   a float of value n + f / 10^7, 0 <= f < 10^7            *)
(*   k = "bool"    True (n = 1) or False (n = 0)                           *)
(*   k = "obj"     a JSON object or array                                  *)
(* A message is [content, timestamp, metadata, role]; metadata is          *)
(* [k, cct] with cct the value of its conversation_create_time key.        *)
(***************************************************************************)
EXTENDS Integers, Sequences, FiniteSets, TLC

VARIABLES
    inputExists,  \* INPUT_FILE.exists()
    inputValid,   \* the input file holds valid JSON
    input,        \* the JSON array in the input file (never modified)
    pc,           \* position of main()
    err,          \* the exception that ended the run, "" when none
    messages,     \* the list clean_messages is working on (records mutated in place)
    i,            \* index of the next record of the for loop
    cleaned,      \* the list `cleaned`, as indices into messages (it holds the same dict objects)
    call,         \* which invocation of clean_messages this is
    firstOut,     \* the list returned by the first invocation, once it has been re-applied
    outputFile,   \* the output file: [touched, data]
    writes,       \* number of times the output file was opened for writing
    stdout        \* the counts printed by the success line

vars == <<inputExists, inputValid, input, pc, err, messages, i, cleaned, call,
          firstOut, outputFile, writes, stdout>>

----------------------------------------------------------------------------
(* Bounds of the model *)

MaxLen == 2     \* longest input list built from CoreRecords
MaxK == 40      \* integer timestamps k * 52000001 s (about 602 days) for k in -MaxK .. MaxK

----------------------------------------------------------------------------
(* JSON values *)

Absent == [k |-> "absent", s |-> <<>>, n |-> 0, f |-> 0]
None == [k |-> "null", s |-> <<>>, n |-> 0, f |-> 0]
StrV(chars) == [k |-> "str", s |-> chars, n |-> 0, f |-> 0]
IntV(v) == [k |-> "int", s |-> <<>>, n |-> v, f |-> 0]
FloatV(whole, frac) == [k |-> "float", s |-> <<>>, n |-> whole, f |-> frac]
BoolV(b) == [k |-> "bool", s |-> <<>>, n |-> IF b THEN 1 ELSE 0, f |-> 0]
Obj == [k |-> "obj", s |-> <<>>, n |-> 0, f |-> 0]

Meta(kind, v) == [k |-> kind, cct |-> v]

EmptyStr == StrV(<<>>)
NullStr == StrV(<<"n", "u", "l", "l">>)
HiStr == StrV(<<"h", "i">>)
AbcStr == StrV(<<"a", "b", "c">>)
IsoStr == StrV(<<"2", "0", "2", "1", "-", "0", "5", "-", "0", "1", "T",
                "0", "0", ":", "0", "0", ":", "0", "0", "Z">>)

----------------------------------------------------------------------------
(* datetime.fromtimestamp(ts, tz=utc).replace(microsecond=0).isoformat()   *)
(*     .replace("+00:00", "Z")                                             *)

Digits == <<"0", "1", "2", "3", "4", "5", "6", "7", "8", "9">>

\* round(frac * 1e6) of fromtimestamp: the fraction in microseconds, ties to even
\* (frac in units of 10^-7 s; a result of 10^6 carries into the next second)
RoundMicros(frac) ==
    LET q == frac \div 10
        r == frac % 10
    IN  IF r > 5 \/ (r = 5 /\ q % 2 = 1) THEN q + 1 ELSE q

\* variant: the fraction is rounded to the nearest second instead of being dropped
EpochSecondRounded(ts) ==
    IF ts.k = "float" /\ ts.f >= 5000000 THEN ts.n + 1 ELSE ts.n

\* the aware datetime's whole epoch second after .replace(microsecond=0)
EpochSecond(ts) ==
    IF ts.k = "float"
    THEN IF RoundMicros(ts.f) >= 1000000 THEN ts.n + 1 ELSE ts.n
    ELSE ts.n

\* datetime._ord2ymd: proleptic Gregorian ordinal (0001-01-01 is day 1) to <<y, m, d>>
DaysBeforeMonth == <<0, 31, 59, 90, 120, 151, 181, 212, 243, 273, 304, 334>>
DaysInMonth == <<31, 28, 31, 30, 31, 30, 31, 31, 30, 31, 30, 31>>

Ord2Ymd(ordinal) ==
    LET n0 == ordinal - 1
        n400 == n0 \div 146097
        r400 == n0 % 146097
        n100 == r400 \div 36524
        r100 == r400 % 36524
        n4 == r100 \div 1461
        r4 == r100 % 1461
        n1 == r4 \div 365
        n == r4 % 365
        year == n400 * 400 + 1 + n100 * 100 + n4 * 4 + n1
        leapyear == n1 = 3 /\ (n4 # 24 \/ n100 = 3)
        month0 == (n + 50) \div 32
        preceding0 == DaysBeforeMonth[month0] + (IF month0 > 2 /\ leapyear THEN 1 ELSE 0)
        month == IF preceding0 > n THEN month0 - 1 ELSE month0
        preceding ==
            IF preceding0 > n
            THEN preceding0 - (DaysInMonth[month] + (IF month = 2 /\ leapyear THEN 1 ELSE 0))
            ELSE preceding0
    IN  IF n1 = 4 \/ n100 = 4
        THEN <<year - 1, 12, 31>>
        ELSE <<year, month, n - preceding + 1>>

Pad2(v) == <<Digits[((v \div 10) % 10) + 1], Digits[(v % 10) + 1]>>
Pad4(v) == Pad2(v \div 100) \o Pad2(v % 100)

\* the characters of the ISO-8601 string for a numeric timestamp
numeric_ts_to_iso(ts) ==
    LET sec == EpochSecond(ts)
        ymd == Ord2Ymd(sec \div 86400 + 719163)
        sod == sec % 86400
    IN  Pad4(ymd[1]) \o <<"-">> \o Pad2(ymd[2]) \o <<"-">> \o Pad2(ymd[3]) \o <<"T">>
        \o Pad2(sod \div 3600) \o <<":">> \o Pad2((sod \div 60) % 60) \o <<":">>
        \o Pad2(sod % 60) \o <<"Z">>

----------------------------------------------------------------------------
(* clean_messages: the per-record rules *)

\* msg.get(key): None when the key is missing
Get(v) == IF v.k = "absent" THEN None ELSE v

\* variant: msg.get("content") == "", a missing key is not the empty string
IsEmptyContentNoDefault(msg) == msg.content.k = "str" /\ msg.content.s = <<>>

\* msg.get("content", "") == ""
IsEmptyContent(msg) ==
    LET c == IF msg.content.k = "absent" THEN EmptyStr ELSE msg.content
    IN  c.k = "str" /\ c.s = <<>>

\* variant: ts in (None, ""), the literal "null" is taken for a timestamp
IsUnusableNoNullLiteral(ts) == ts.k = "null" \/ (ts.k = "str" /\ ts.s = <<>>)

\* ts in (None, "", "null")
IsUnusable(ts) == ts.k = "null" \/ (ts.k = "str" /\ ts.s \in {EmptyStr.s, NullStr.s})

\* msg.get("metadata", {}) is something with a .get method (a dict)
MetadataHasGet(msg) == msg.metadata.k \in {"absent", "obj"}

\* msg.get("metadata", {}).get("conversation_create_time")
Fallback(msg) == IF msg.metadata.k = "absent" THEN None ELSE Get(msg.metadata.cct)

\* the lookup of the fallback raises AttributeError
Raises(msg) == IsUnusable(Get(msg.timestamp)) /\ ~MetadataHasGet(msg)

\* the value of `ts` after the fallback step
WorkingTs(msg) ==
    IF IsUnusable(Get(msg.timestamp)) THEN Fallback(msg) ELSE Get(msg.timestamp)

\* isinstance(ts, (int, float)); bool is a subclass of int
IsNumeric(ts) == ts.k \in {"int", "float", "bool"}

\* variant: the record is rebuilt without its metadata
SetTimestampDropsMetadata(msg, chars) ==
    [msg EXCEPT !.timestamp = StrV(chars), !.metadata = Meta("absent", Absent)]

\* msg["timestamp"] = ts_iso
SetTimestamp(msg, chars) == [msg EXCEPT !.timestamp = StrV(chars)]

\* variant: msg.pop("content", None), the wrong key is removed
PopContent(msg) == [msg EXCEPT !.content = Absent]

\* msg.pop("timestamp", None)
PopTimestamp(msg) == [msg EXCEPT !.timestamp = Absent]

\* variant: cleaned.insert(0, msg)
PrependCleaned(list, idx) == <<idx>> \o list

\* cleaned.append(msg)
AppendCleaned(list, idx) == Append(list, idx)

\* the list clean_messages returns: the records `cleaned` refers to
Output == [j \in 1..Len(cleaned) |-> messages[cleaned[j]]]

----------------------------------------------------------------------------
(* The inputs: JSON arrays of message objects *)

IntTimestamps ==
    {0, 5, -1, 86399, 951782400, 951868799, 978307199, 1078099199, 1700000000,
     2147483647, -2147483647}
    \cup {k * 52000001 : k \in (-MaxK)..MaxK}

FloatTimestamps ==
    {FloatV(0, 5000000), FloatV(0, 9999994), FloatV(0, 9999996), FloatV(0, 9999995),
     FloatV(0, 9999985), FloatV(0, 5), FloatV(0, 15), FloatV(1, 0),
     FloatV(-1, 5000000), FloatV(-1, 9999996), FloatV(1700000000, 9999998)}

WideContents == {Absent, None, EmptyStr, HiStr, IntV(0)}

WideTimestamps ==
    {Absent, None, EmptyStr, NullStr, IsoStr, AbcStr, BoolV(TRUE), BoolV(FALSE), Obj}
    \cup {IntV(v) : v \in IntTimestamps} \cup FloatTimestamps

WideMetadatas ==
    {Meta("absent", Absent), Meta("null", Absent), Meta("str", Absent)}
    \cup {Meta("obj", v) : v \in {Absent, None, EmptyStr, AbcStr, IsoStr, IntV(0),
                                  IntV(1700000000), FloatV(1700000000, 9999998),
                                  BoolV(TRUE), Obj}}

CoreContents == {Absent, EmptyStr, HiStr}
CoreTimestamps == {Absent, None, NullStr, IsoStr, IntV(0)}
CoreMetadatas ==
    {Meta("absent", Absent), Meta("null", Absent), Meta("obj", IntV(1700000000)),
     Meta("obj", AbcStr)}

Records(contents, timestamps, metadatas) ==
    {[content |-> c, timestamp |-> t, metadata |-> m, role |-> StrV(<<"u">>)] :
        c \in contents, t \in timestamps, m \in metadatas}

CoreRecords == Records(CoreContents, CoreTimestamps, CoreMetadatas)
WideRecords == Records(WideContents, WideTimestamps, WideMetadatas)

\* lists of up to MaxLen core records, and one-record lists over the wide value sets
Inputs ==
    UNION {[1..len -> CoreRecords] : len \in 0..MaxLen} \cup {<<r>> : r \in WideRecords}

Init ==
    /\ inputExists \in BOOLEAN
    /\ inputValid \in (IF inputExists THEN BOOLEAN ELSE {FALSE})
    /\ input \in (IF inputValid THEN Inputs ELSE {<<>>})
    /\ pc = "start"
    /\ err = ""
    /\ messages = <<>>
    /\ i = 1
    /\ cleaned = <<>>
    /\ call = 1
    /\ firstOut = <<>>
    /\ outputFile = [touched |-> FALSE, data |-> <<>>]
    /\ writes = 0
    /\ stdout = <<>>

----------------------------------------------------------------------------
(* main() *)

\* variant: a missing input file is taken for an empty list
MainCheckExistsTolerant ==
    /\ pc = "start"
    /\ IF inputExists
       THEN pc' = "open" /\ UNCHANGED <<messages, i, cleaned>>
       ELSE pc' = "cleaning" /\ messages' = <<>> /\ i' = 1 /\ cleaned' = <<>>
    /\ UNCHANGED <<inputExists, inputValid, input, err, call, firstOut, outputFile,
                   writes, stdout>>

\* if not INPUT_FILE.exists(): raise FileNotFoundError
MainCheckExists ==
    /\ pc = "start"
    /\ IF inputExists
       THEN pc' = "open" /\ err' = err
       ELSE pc' = "error" /\ err' = "FileNotFoundError"
    /\ UNCHANGED <<inputExists, inputValid, input, messages, i, cleaned, call,
                   firstOut, outputFile, writes, stdout>>

\* messages = json.load(f), then the call of clean_messages(messages)
MainLoad ==
    /\ pc = "open"
    /\ IF inputValid
       THEN /\ messages' = input
            /\ i' = 1
            /\ cleaned' = <<>>
            /\ pc' = "cleaning"
            /\ err' = err
       ELSE /\ pc' = "error"
            /\ err' = "JSONDecodeError"
            /\ UNCHANGED <<messages, i, cleaned>>
    /\ UNCHANGED <<inputExists, inputValid, input, call, firstOut, outputFile,
                   writes, stdout>>

InLoop == pc = "cleaning" /\ i <= Len(messages)

\* one loop iteration: the content is empty, continue
SkipEmpty ==
    /\ InLoop
    /\ IsEmptyContent(messages[i])
    /\ i' = i + 1
    /\ UNCHANGED <<inputExists, inputValid, input, pc, err, messages, cleaned, call,
                   firstOut, outputFile, writes, stdout>>

\* one loop iteration: metadata has no .get, the fallback lookup raises
RaiseAttributeError ==
    /\ InLoop
    /\ ~IsEmptyContent(messages[i])
    /\ Raises(messages[i])
    /\ pc' = "error"
    /\ err' = "AttributeError"
    /\ UNCHANGED <<inputExists, inputValid, input, messages, i, cleaned, call,
                   firstOut, outputFile, writes, stdout>>

\* one loop iteration: the working timestamp is numeric
ConvertNumeric ==
    /\ InLoop
    /\ ~IsEmptyContent(messages[i])
    /\ ~Raises(messages[i])
    /\ IsNumeric(WorkingTs(messages[i]))
    /\ messages' = [messages EXCEPT
                      ![i] = SetTimestamp(@, numeric_ts_to_iso(WorkingTs(messages[i])))]
    /\ cleaned' = AppendCleaned(cleaned, i)
    /\ i' = i + 1
    /\ UNCHANGED <<inputExists, inputValid, input, pc, err, call, firstOut,
                   outputFile, writes, stdout>>

\* one loop iteration: the working timestamp is None
DropNull ==
    /\ InLoop
    /\ ~IsEmptyContent(messages[i])
    /\ ~Raises(messages[i])
    /\ ~IsNumeric(WorkingTs(messages[i]))
    /\ WorkingTs(messages[i]).k = "null"
    /\ messages' = [messages EXCEPT ![i] = PopTimestamp(@)]
    /\ cleaned' = AppendCleaned(cleaned, i)
    /\ i' = i + 1
    /\ UNCHANGED <<inputExists, inputValid, input, pc, err, call, firstOut,
                   outputFile, writes, stdout>>

\* one loop iteration: the working timestamp is anything else, the record is left as is
LeaveAsIs ==
    /\ InLoop
    /\ ~IsEmptyContent(messages[i])
    /\ ~Raises(messages[i])
    /\ ~IsNumeric(WorkingTs(messages[i]))
    /\ WorkingTs(messages[i]).k # "null"
    /\ cleaned' = AppendCleaned(cleaned, i)
    /\ i' = i + 1
    /\ UNCHANGED <<inputExists, inputValid, input, pc, err, messages, call, firstOut,
                   outputFile, writes, stdout>>

\* return cleaned
CleanReturn ==
    /\ pc = "cleaning"
    /\ i > Len(messages)
    /\ pc' = "cleaned"
    /\ UNCHANGED <<inputExists, inputValid, input, err, messages, i, cleaned, call,
                   firstOut, outputFile, writes, stdout>>

\* with OUTPUT_FILE.open("w") ...: json.dump(cleaned_messages, f, ...)
MainWrite ==
    /\ pc = "cleaned"
    /\ outputFile' = [touched |-> TRUE, data |-> Output]
    /\ writes' = writes + 1
    /\ pc' = "written"
    /\ UNCHANGED <<inputExists, inputValid, input, err, messages, i, cleaned, call,
                   firstOut, stdout>>

\* print(f"Wrote {len(cleaned_messages):,} cleaned messages to ...")
MainPrint ==
    /\ pc = "written"
    /\ stdout' = Append(stdout, Len(cleaned))
    /\ pc' = "done"
    /\ UNCHANGED <<inputExists, inputValid, input, err, messages, i, cleaned, call,
                   firstOut, outputFile, writes>>

\* clean_messages applied to the list it returned
Reapply ==
    /\ pc = "cleaned"
    /\ call = 1
    /\ firstOut' = Output
    /\ messages' = Output
    /\ cleaned' = <<>>
    /\ i' = 1
    /\ call' = 2
    /\ pc' = "cleaning"
    /\ UNCHANGED <<inputExists, inputValid, input, err, outputFile, writes, stdout>>

Next ==
    \/ MainCheckExists
    \/ MainLoad
    \/ SkipEmpty
    \/ RaiseAttributeError
    \/ ConvertNumeric
    \/ DropNull
    \/ LeaveAsIs
    \/ CleanReturn
    \/ MainWrite
    \/ MainPrint

Spec == Init /\ [][Next]_vars

NextTwice == Next \/ Reapply

SpecTwice == Init /\ [][NextTwice]_vars

----------------------------------------------------------------------------
(* Vocabulary of the properties, stated from the input and the output      *)

Idx == 1..Len(input)

\* clean_messages has returned
Returned == pc \in {"cleaned", "written", "done"}

\* the record at position idx of the input is in the returned list
Survives(idx) == \E j \in 1..Len(cleaned) : cleaned[j] = idx

\* the content key is present and holds the empty string
PresentEmpty(r) == r.content.k = "str" /\ r.content.s = <<>>

\* a timestamp that is missing, null, "" or "null"
UnusableTimestamp(r) == r.timestamp \in {Absent, None, EmptyStr, NullStr}

\* metadata.conversation_create_time, None when metadata or the key is missing
FallbackValue(r) ==
    IF r.metadata.k = "obj" /\ r.metadata.cct.k # "absent" THEN r.metadata.cct ELSE None

\* the working timestamp value after the fallback step
WorkingValue(r) == IF UnusableTimestamp(r) THEN FallbackValue(r) ELSE r.timestamp

\* an integer or floating-point number
Number(v) == v.k \in {"int", "float"}

\* the inverse ISO parse: datetime._ymd2ord and the seconds of the day
IsLeap(y) == y % 4 = 0 /\ (y % 100 # 0 \/ y % 400 = 0)

Ymd2Ord(y, m, d) ==
    (y - 1) * 365 + ((y - 1) \div 4) - ((y - 1) \div 100) + ((y - 1) \div 400)
    + DaysBeforeMonth[m] + (IF m > 2 /\ IsLeap(y) THEN 1 ELSE 0) + d

IsDigit(c) == \E d \in 1..10 : Digits[d] = c
DigitVal(c) == (CHOOSE d \in 1..10 : Digits[d] = c) - 1
Num2(chars, at) == DigitVal(chars[at]) * 10 + DigitVal(chars[at + 1])

\* the string has the shape YYYY-MM-DDTHH:MM:SSZ and names a real date and time
IsIsoFormat(chars) ==
    /\ Len(chars) = 20
    /\ chars[5] = "-" /\ chars[8] = "-" /\ chars[11] = "T"
    /\ chars[14] = ":" /\ chars[17] = ":" /\ chars[20] = "Z"
    /\ \A at \in {1, 2, 3, 4, 6, 7, 9, 10, 12, 13, 15, 16, 18, 19} : IsDigit(chars[at])
    /\ LET y == Num2(chars, 1) * 100 + Num2(chars, 3)
           m == Num2(chars, 6)
           d == Num2(chars, 9)
       IN  /\ y >= 1
           /\ m \in 1..12
           /\ d >= 1
           /\ d <= DaysInMonth[m] + (IF m = 2 /\ IsLeap(y) THEN 1 ELSE 0)
    /\ Num2(chars, 12) < 24 /\ Num2(chars, 15) < 60 /\ Num2(chars, 18) < 60

\* the epoch second the string denotes, as <<days since 1970-01-01, second of the day>>
ParseIso(chars) ==
    <<Ymd2Ord(Num2(chars, 1) * 100 + Num2(chars, 3), Num2(chars, 6), Num2(chars, 9)) - 719163,
      Num2(chars, 12) * 3600 + Num2(chars, 15) * 60 + Num2(chars, 18)>>

\* epoch second sec as <<days since 1970-01-01, second of the day>>
DaySecond(sec) == <<sec \div 86400, sec % 86400>>

----------------------------------------------------------------------------
(* C1 *)

Kept1(r) == ~PresentEmpty(r)
Kept1Amended(r) == r.content.k # "absent" /\ ~PresentEmpty(r)

\* C1, as stated: a record is dropped if and only if its content key is present
\* and equals the empty string (a record with no content key is kept), so the
\* output length is the number of records whose content is non-empty or absent.
C1_DropsOnlyPresentEmpty ==
    Returned =>
        /\ \A idx \in Idx : Survives(idx) <=> Kept1(input[idx])
        /\ Len(cleaned) = Cardinality({idx \in Idx : Kept1(input[idx])})
        /\ Len(cleaned) <= Len(input)

\* C1, amended: a record is dropped if and only if its content key is missing or
\* holds the empty string; every other record (content null included) is kept, so
\* the output length is the number of records whose content is present and not
\* the empty string, and is never greater than the input length.
C1_DropsEmptyOrAbsent ==
    Returned =>
        /\ \A idx \in Idx : Survives(idx) <=> Kept1Amended(input[idx])
        /\ Len(cleaned) = Cardinality({idx \in Idx : Kept1Amended(input[idx])})
        /\ Len(cleaned) <= Len(input)

\* a record without a content key was dropped next to a record that was kept
C1_Witness ==
    /\ Returned
    /\ \E a, b \in Idx :
        /\ input[a].content = Absent /\ ~Survives(a)
        /\ Survives(b)

----------------------------------------------------------------------------
(* C2 *)

\* C2: a surviving record whose input timestamp is missing, null, "" or "null"
\* gets the ISO-8601 conversion of metadata.conversation_create_time when that is
\* a number, and has no timestamp key when metadata or that key is missing.
C2_FallbackTimestamp ==
    Returned =>
        \A idx \in Idx :
            (Survives(idx) /\ UnusableTimestamp(input[idx])) =>
                LET md == input[idx].metadata
                IN  /\ (md.k = "obj" /\ Number(md.cct)) =>
                            messages[idx].timestamp = StrV(numeric_ts_to_iso(md.cct))
                    /\ (md.k = "absent" \/ (md.k = "obj" /\ md.cct.k = "absent")) =>
                            messages[idx].timestamp = Absent

\* two survivors with a null timestamp: one took the numeric fallback, the other
\* had no metadata and lost the key
C2_Witness ==
    /\ Returned
    /\ \E a, b \in Idx :
        /\ Survives(a) /\ input[a].timestamp = None
        /\ input[a].metadata.k = "obj" /\ Number(input[a].metadata.cct)
        /\ messages[a].timestamp.k = "str"
        /\ Survives(b) /\ input[b].timestamp = None
        /\ input[b].metadata.k = "absent"
        /\ messages[b].timestamp = Absent

----------------------------------------------------------------------------
(* C3 *)

\* the value with its sub-second part discarded: rounded down, or towards zero
Floor(v) == v.n
TowardsZero(v) == IF v.n < 0 /\ v.f > 0 THEN v.n + 1 ELSE v.n

\* the value rounded to the nearest microsecond, then rounded down to a second
FloorOfMicros(v) == IF v.k = "float" /\ v.f >= 9999995 THEN v.n + 1 ELSE v.n

Scenario(v, chars) ==
    \A idx \in Idx :
        (Survives(idx) /\ input[idx].timestamp = v) => messages[idx].timestamp = StrV(chars)

\* C3, as stated: a numeric input timestamp becomes a YYYY-MM-DDTHH:MM:SSZ string
\* that denotes the value truncated to whole seconds, and parses back to it.
C3_TruncatedToSeconds ==
    Returned =>
        \A idx \in Idx :
            (Survives(idx) /\ Number(input[idx].timestamp)) =>
                /\ messages[idx].timestamp.k = "str"
                /\ IsIsoFormat(messages[idx].timestamp.s)
                /\ ParseIso(messages[idx].timestamp.s)
                       \in {DaySecond(Floor(input[idx].timestamp)),
                            DaySecond(TowardsZero(input[idx].timestamp))}

\* C3, amended: a numeric input timestamp becomes a YYYY-MM-DDTHH:MM:SSZ string
\* that denotes the value rounded to the nearest microsecond and then rounded down
\* to a whole second (the next second for a value less than half a microsecond
\* below it), and parses back to that second; 0 gives 1970-01-01T00:00:00Z.
C3_RoundedMicrosThenFloor ==
    Returned =>
        /\ \A idx \in Idx :
            (Survives(idx) /\ Number(input[idx].timestamp)) =>
                /\ messages[idx].timestamp.k = "str"
                /\ IsIsoFormat(messages[idx].timestamp.s)
                /\ ParseIso(messages[idx].timestamp.s)
                       = DaySecond(FloorOfMicros(input[idx].timestamp))
        /\ Scenario(IntV(0), <<"1", "9", "7", "0", "-", "0", "1", "-", "0", "1", "T",
                               "0", "0", ":", "0", "0", ":", "0", "0", "Z">>)
        /\ Scenario(IntV(1700000000),
                    <<"2", "0", "2", "3", "-", "1", "1", "-", "1", "4", "T",
                      "2", "2", ":", "1", "3", ":", "2", "0", "Z">>)
        /\ Scenario(IntV(951782400),
                    <<"2", "0", "0", "0", "-", "0", "2", "-", "2", "9", "T",
                      "0", "0", ":", "0", "0", ":", "0", "0", "Z">>)

\* a fractional timestamp just below a whole second was converted
C3_Witness ==
    /\ Returned
    /\ \E idx \in Idx :
        /\ Survives(idx)
        /\ input[idx].timestamp = FloatV(1700000000, 9999998)
        /\ messages[idx].timestamp.k = "str"

----------------------------------------------------------------------------
(* C4 *)

\* C4: a surviving record whose working timestamp value is neither a number nor
\* null has exactly that value as its output timestamp.
C4_NonNumericKeptExactly ==
    Returned =>
        \A idx \in Idx :
            LET w == WorkingValue(input[idx])
            IN  (Survives(idx) /\ w.k \in {"str", "obj"} /\ w \notin {EmptyStr, NullStr}) =>
                    messages[idx].timestamp = w

----------------------------------------------------------------------------
(* C5 *)

\* C5: the output is a subsequence of the input: the survivors, each once, in
\* their input order, and nothing else.
C5_Subsequence ==
    Returned =>
        /\ \A j \in 1..Len(cleaned) : cleaned[j] \in Idx
        /\ \A j, k \in 1..Len(cleaned) : j < k => cleaned[j] < cleaned[k]
        /\ \A j \in 1..Len(cleaned) :
            /\ Output[j].content = input[cleaned[j]].content
            /\ Output[j].metadata = input[cleaned[j]].metadata
            /\ Output[j].role = input[cleaned[j]].role
        /\ \A idx \in Idx : Kept1Amended(input[idx]) => Survives(idx)

\* two different records survived
C5_Witness ==
    /\ Returned
    /\ Len(cleaned) >= 2
    /\ input[cleaned[1]] # input[cleaned[2]]

----------------------------------------------------------------------------
(* C6 *)

\* C6: the cleaning logic raises no error on any record.
C6_NeverRaises == err # "AttributeError"

----------------------------------------------------------------------------
(* C7 *)

\* C7: the output file is written at most once, only after the input was found,
\* parsed and every record cleaned; on a missing or invalid input the run ends in
\* an error before any record is processed, without touching the output file and
\* without printing the success line.
C7_WriteOnceAfterCleaning ==
    /\ writes <= 1
    /\ outputFile.touched <=> writes = 1
    /\ writes = 1 =>
        /\ inputExists /\ inputValid /\ err = ""
        /\ pc \in {"written", "done"}
        /\ i = Len(input) + 1
        /\ outputFile.data = Output
    /\ stdout # <<>> => (writes = 1 /\ stdout = <<Len(outputFile.data)>>)
    /\ ~inputExists => pc \in {"start", "error"}
    /\ ~inputValid =>
        /\ pc \in {"start", "open", "error"}
        /\ i = 1 /\ cleaned = <<>> /\ messages = <<>>
        /\ writes = 0 /\ stdout = <<>>
    /\ pc = "error" => (writes = 0 /\ stdout = <<>> /\ err # "")

\* a run that wrote a non-empty output and printed the success line
C7_Witness == pc = "done" /\ writes = 1 /\ Len(outputFile.data) >= 1 /\ stdout # <<>>

----------------------------------------------------------------------------
(* C8 *)

\* C8: no output record has a timestamp key whose value is null or numeric.
C8_NoNullOrNumericTimestamp ==
    Returned =>
        \A j \in 1..Len(cleaned) : Output[j].timestamp.k \notin {"null", "int", "float"}

----------------------------------------------------------------------------
(* C9 *)

\* C9: only the timestamp key of a surviving record changes: every other key keeps
\* its value, and the input list keeps its length, its order and its dropped
\* records unmodified.
C9_OnlyTimestampChanges ==
    (pc \in {"cleaning", "cleaned", "written", "done"} \/ err = "AttributeError") =>
        /\ Len(messages) = Len(input)
        /\ \A idx \in Idx :
            /\ messages[idx].content = input[idx].content
            /\ messages[idx].metadata = input[idx].metadata
            /\ messages[idx].role = input[idx].role
            /\ ~Survives(idx) => messages[idx] = input[idx]

\* one record was dropped, another had its timestamp rewritten
C9_Witness ==
    /\ Returned
    /\ \E a, b \in Idx :
        /\ ~Survives(a)
        /\ Survives(b) /\ messages[b].timestamp # input[b].timestamp

----------------------------------------------------------------------------
(* C10 *)

\* C10: clean_messages applied to its own output returns a list equal to it.
C10_Idempotent == (call = 2 /\ Returned) => Output = firstOut

\* the second application has returned a list in which the first had dropped a
\* record and rewritten a timestamp
C10_Witness ==
    /\ call = 2
    /\ Returned
    /\ Len(firstOut) < Len(input)
    /\ \E j \in 1..Len(firstOut) : firstOut[j].timestamp = StrV(numeric_ts_to_iso(IntV(0)))

====
